---- MODULE Spec2Model ----
(***************************************************************************)
(* State-machine model of ddreplayer (src/src/main.rs): the replay table   *)
(* (entity store + one type-erased column per label), the viewer and the   *)
(* replay-info editor with its focus state machine and commit.             *)
(*                                                                         *)
(* One step of the model is one iteration of the loop of App::run: one key *)
(* event handled to completion.  Text is a sequence of one-character       *)
(* strings, so that formatting and parsing are computed, not assumed.      *)
(***************************************************************************)
EXTENDS Integers, Sequences, FiniteSets, TLC

VARIABLES
    live,       \* world: the live entities, in the order of world.join(WithEntities)
    spawned,    \* world: number of entity identifiers issued so far
    columns,    \* replay_db.columns: label -> (entity -> cell); a cell is <<>> or <<value>>
    heap,       \* the String heap buffers handed to the Text column: ptr -> [buf, drops]
    state,      \* App.state (AppState), or the process having panicked / returned
    spent,      \* sessions opened plus text-editing keys handled so far
    last,       \* history: the last key handled and the state it was handled in
    downs       \* history: forward navigations since the focus was LabelData(0), or -1

vars == <<live, spawned, columns, heap, state, spent, last, downs>>

----------------------------------------------------------------------------
(* Bounds of the model *)

\* rows spawned by ReplayDB::new (the code spawns 10)
InitRows == 1
\* editor sessions opened plus text-editing key events handled in a run
Budget == 2

\* the rows ReplayDB::new can leave, as [len, split, pb]: the name is 'a'
\* repeated len times (1..7 in the code).  The split is a value an earlier edit can
\* have stored, one digit short of the end of the i16 range.
InitRowSamples ==
    { [len |-> 1, split |-> -3277, pb |-> TRUE] }
\* the characters a text-editing key event can insert
EditChars == {"0", "a"}

(* Program constants *)

\* the fixed row count of next_row / prev_row
RowCount == 10
I16Min == -32768
I16Max == 32767

----------------------------------------------------------------------------
(* Label, LabelDataKind and the schema of ReplayDB::new *)

Label(name, data) == [name |-> name, data |-> data]

dbLabels ==
    << Label("Name", "Text"), Label("800 Split", "Number"), Label("PB", "Unit") >>

LabelSet == {dbLabels[i] : i \in 1..Len(dbLabels)}

\* every session can spawn one entity
Entities == 1..(InitRows + Budget)

----------------------------------------------------------------------------
(* Text <-> i16 *)

Digits == <<"0", "1", "2", "3", "4", "5", "6", "7", "8", "9">>

IsDigit(c) == \E d \in 1..10 : Digits[d] = c

DigitVal(c) == (CHOOSE d \in 1..10 : Digits[d] = c) - 1

\* variant: only the last digit is written
FormatNatUnits(n) == <<Digits[(n % 10) + 1]>>

RECURSIVE FormatNat(_)
FormatNat(n) ==
    IF n < 10 THEN <<Digits[n + 1]>>
    ELSE Append(FormatNat(n \div 10), Digits[(n % 10) + 1])

\* format!("{typed_data}") of an i16
FormatI16(n) == IF n < 0 THEN <<"-">> \o FormatNat(-n) ELSE FormatNat(n)

RECURSIVE DigitsValue(_)
DigitsValue(s) ==
    IF s = <<>> THEN 0
    ELSE 10 * DigitsValue(SubSeq(s, 1, Len(s) - 1)) + DigitVal(s[Len(s)])

\* str::parse::<i16>: an optional sign, then at least one digit, all digits,
\* the value within the 16-bit range; anything else is an Err
ParseI16(s) ==
    LET signed == s # <<>> /\ s[1] \in {"-", "+"}
        body   == IF signed THEN Tail(s) ELSE s
        v      == IF signed /\ s[1] = "-" THEN -DigitsValue(body) ELSE DigitsValue(body)
    IN  IF body # <<>> /\ (\A i \in 1..Len(body) : IsDigit(body[i]))
           /\ v >= I16Min /\ v <= I16Max
        THEN [ok |-> TRUE, v |-> v]
        ELSE [ok |-> FALSE, v |-> 0]

----------------------------------------------------------------------------
(* The entity store and the columns *)

\* DynamicTable::get_component: <<>> when absent, <<bytes>> when present
GetComponent(cols, label, e) == cols[label][e]

\* DynamicTable::remove_component: the entry goes; the bytes are not interpreted
RemoveComponent(cols, label, e) ==
    [cols EXCEPT ![label] = [@ EXCEPT ![e] = <<>>]]

\* DynamicTable::insert_component: the bytes overwrite any prior entry
InsertComponent(cols, label, e, bytes) ==
    [cols EXCEPT ![label] = [@ EXCEPT ![e] = <<bytes>>]]

\* World::despawn as seen by the columns: no column has an entry for e
DespawnColumns(cols, e) ==
    [l \in LabelSet |-> [cols[l] EXCEPT ![e] = <<>>]]

\* World::despawn as seen by world.join(WithEntities)
DespawnLive(lv, e) == SelectSeq(lv, LAMBDA x : x # e)

\* the row of an entity: label -> cell
Row(cols, e) == [l \in LabelSet |-> GetComponent(cols, l, e)]

----------------------------------------------------------------------------
(* AppState, ReplayInfoEditorFocus *)

ReplayDBViewer(selected) == [tag |-> "ReplayDBViewer", selected |-> selected]

ReplayInfoEditor(entity, focus, labels) ==
    [tag |-> "ReplayInfoEditor", entity |-> entity, focus |-> focus, labels |-> labels]

\* the process after a panic (an unwrap on None / Err, an index out of range)
Panicked == [tag |-> "Panicked"]

\* the process after App::run returned
Exited == [tag |-> "Exited"]

LabelData(n)    == [tag |-> "LabelData", n |-> n]
LabelRemove(n)  == [tag |-> "LabelRemove", n |-> n]
LabelAdd        == [tag |-> "LabelAdd", n |-> 0]
AddableLabel(n) == [tag |-> "AddableLabel", n |-> n]
SaveChanges     == [tag |-> "SaveChanges", n |-> 0]

\* variant: the last-field test of the LabelRemove arm is off by one
next_focus_off_by_one(self, max_labels, max_addable_labels, for_deletion) ==
    CASE self.tag = "LabelData" -> LabelRemove(self.n)
      [] self.tag = "LabelRemove" ->
            IF max_labels = self.n THEN LabelAdd
            ELSE IF for_deletion THEN LabelData(self.n)
            ELSE LabelData(self.n + 1)
      [] self.tag = "AddableLabel" ->
            IF max_addable_labels = self.n + 1 THEN AddableLabel(0)
            ELSE AddableLabel(self.n + 1)
      [] self.tag = "LabelAdd" -> SaveChanges
      [] self.tag = "SaveChanges" -> SaveChanges

\* variant: the AddableLabel arm does not wrap
next_focus_no_wrap(self, max_labels, max_addable_labels, for_deletion) ==
    CASE self.tag = "LabelData" -> LabelRemove(self.n)
      [] self.tag = "LabelRemove" ->
            IF max_labels = self.n + 1 THEN LabelAdd
            ELSE IF for_deletion THEN LabelData(self.n)
            ELSE LabelData(self.n + 1)
      [] self.tag = "AddableLabel" -> AddableLabel(self.n + 1)
      [] self.tag = "LabelAdd" -> SaveChanges
      [] self.tag = "SaveChanges" -> SaveChanges

\* indices are usize and 0-based, as in the source
next_focus(self, max_labels, max_addable_labels, for_deletion) ==
    CASE self.tag = "LabelData" -> LabelRemove(self.n)
      [] self.tag = "LabelRemove" ->
            IF max_labels = self.n + 1 THEN LabelAdd
            ELSE IF for_deletion THEN LabelData(self.n)
            ELSE LabelData(self.n + 1)
      [] self.tag = "AddableLabel" ->
            IF max_addable_labels = self.n + 1 THEN AddableLabel(0)
            ELSE AddableLabel(self.n + 1)
      [] self.tag = "LabelAdd" -> SaveChanges
      [] self.tag = "SaveChanges" -> SaveChanges

\* variant: the LabelData arm keeps the index
prev_focus_same_index(self, max_labels, max_addable_labels) ==
    CASE self.tag = "LabelRemove" -> LabelData(self.n)
      [] self.tag = "LabelData" ->
            IF self.n = 0 THEN LabelData(self.n) ELSE LabelRemove(self.n)
      [] self.tag = "AddableLabel" ->
            IF self.n = 0 THEN AddableLabel(max_addable_labels - 1)
            ELSE AddableLabel(self.n - 1)
      [] self.tag = "LabelAdd" ->
            IF max_labels >= 1 THEN LabelRemove(max_labels - 1) ELSE LabelAdd
      [] self.tag = "SaveChanges" -> LabelAdd

prev_focus(self, max_labels, max_addable_labels) ==
    CASE self.tag = "LabelRemove" -> LabelData(self.n)
      [] self.tag = "LabelData" ->
            IF self.n = 0 THEN LabelData(self.n) ELSE LabelRemove(self.n - 1)
      [] self.tag = "AddableLabel" ->
            IF self.n = 0 THEN AddableLabel(max_addable_labels - 1)
            ELSE AddableLabel(self.n - 1)
      [] self.tag = "LabelAdd" ->
            IF max_labels >= 1 THEN LabelRemove(max_labels - 1) ELSE LabelAdd
      [] self.tag = "SaveChanges" -> LabelAdd

LabelInput(label, data) == [label |-> label, data |-> data]

\* the text a stored cell is shown as in a new session
ExistingInput(hp, label, bytes) ==
    CASE label.data = "Number" -> FormatI16(bytes)
      [] label.data = "Text"   -> hp[bytes].buf
      [] label.data = "Unit"   -> <<>>

RECURSIVE SeedLabels(_, _, _, _)
SeedLabels(cols, hp, e, schema) ==
    IF schema = <<>> THEN <<>>
    ELSE LET label == Head(schema)
             data  == GetComponent(cols, label, e)
             rest  == SeedLabels(cols, hp, e, Tail(schema))
         IN  IF data = <<>> THEN rest
             ELSE <<LabelInput(label, ExistingInput(hp, label, data[1]))>> \o rest

\* variant: the focus starts at the first field whatever was seeded
NewEditorFirstField(cols, hp, e) ==
    ReplayInfoEditor(e, LabelData(0), SeedLabels(cols, hp, e, dbLabels))

\* ReplayInfoEditor::new
NewEditor(cols, hp, e) ==
    LET labels == SeedLabels(cols, hp, e, dbLabels)
    IN  ReplayInfoEditor(e, IF Len(labels) > 0 THEN LabelData(0) ELSE LabelAdd, labels)

\* variant: the unstaged labels come out in reverse schema order
addable_labels_reversed(existing_labels) ==
    LET kept == SelectSeq(dbLabels, LAMBDA new_label :
                    ~ \E i \in 1..Len(existing_labels) :
                          existing_labels[i].label = new_label)
    IN  [i \in 1..Len(kept) |-> kept[Len(kept) + 1 - i]]

\* variant: nothing is filtered out of the schema
addable_labels_unfiltered(existing_labels) == dbLabels

\* App::addable_labels
addable_labels(existing_labels) ==
    SelectSeq(dbLabels,
              LAMBDA new_label :
                  ~ \E i \in 1..Len(existing_labels) :
                        existing_labels[i].label = new_label)

number_addable_labels(existing_labels) == Len(addable_labels(existing_labels))

----------------------------------------------------------------------------
(* The commit of App::run's SaveChanges arm *)

\* variant: the loop stops one label short of the schema's end
RECURSIVE ClearRowSkipsLast(_, _, _)
ClearRowSkipsLast(cols, e, schema) ==
    IF Len(schema) <= 1 THEN cols
    ELSE ClearRowSkipsLast(RemoveComponent(cols, Head(schema), e), e, Tail(schema))

\* the first loop: every schema label's entry for the entity is removed
RECURSIVE ClearRow(_, _, _)
ClearRow(cols, e, schema) ==
    IF schema = <<>> THEN cols
    ELSE ClearRow(RemoveComponent(cols, Head(schema), e), e, Tail(schema))

\* variant: a Number that does not parse is stored as 0 instead of panicking
TypedDataLenient(hp, label) ==
    CASE label.label.data = "Number" ->
            [ok |-> TRUE, bytes |-> ParseI16(label.data).v, heap |-> hp]
      [] label.label.data = "Text" ->
            [ok |-> TRUE, bytes |-> Len(hp) + 1,
             heap |-> Append(hp, [buf |-> label.data, drops |-> 0])]
      [] label.label.data = "Unit" ->
            [ok |-> TRUE, bytes |-> "()", heap |-> hp]

\* the bytes the second loop builds for one staged field; ok is FALSE where
\* str::parse::<i16>(..).unwrap() panics.  A Text field gets a fresh String in
\* a ManuallyDrop, whose pointer is what the column is given.
TypedData(hp, label) ==
    CASE label.label.data = "Number" ->
            LET n == ParseI16(label.data)
            IN  [ok |-> n.ok, bytes |-> n.v, heap |-> hp]
      [] label.label.data = "Text" ->
            [ok |-> TRUE, bytes |-> Len(hp) + 1,
             heap |-> Append(hp, [buf |-> label.data, drops |-> 0])]
      [] label.label.data = "Unit" ->
            [ok |-> TRUE, bytes |-> "()", heap |-> hp]

\* the second loop, in staged order; it stops where a field's unwrap panics
RECURSIVE InsertStaged(_, _, _, _)
InsertStaged(cols, hp, e, labels) ==
    IF labels = <<>> THEN [ok |-> TRUE, columns |-> cols, heap |-> hp]
    ELSE LET label == Head(labels)
             typed_data == TypedData(hp, label)
         IN  IF ~typed_data.ok THEN [ok |-> FALSE, columns |-> cols, heap |-> hp]
             ELSE InsertStaged(
                      InsertComponent(cols, label.label, e, typed_data.bytes),
                      typed_data.heap, e, Tail(labels))

\* variant: one loop; the i-th schema label is cleared just before the i-th
\* staged field is inserted, the schema labels left over are cleared at the end
RECURSIVE CommitFused(_, _, _, _, _)
CommitFused(cols, hp, e, labels, schema) ==
    IF labels = <<>> THEN [ok |-> TRUE, columns |-> ClearRow(cols, e, schema), heap |-> hp]
    ELSE LET label == Head(labels)
             cleared == IF schema = <<>> THEN cols
                        ELSE RemoveComponent(cols, Head(schema), e)
             typed_data == TypedData(hp, label)
         IN  IF ~typed_data.ok THEN [ok |-> FALSE, columns |-> cleared, heap |-> hp]
             ELSE CommitFused(
                      InsertComponent(cleared, label.label, e, typed_data.bytes),
                      typed_data.heap, e, Tail(labels),
                      IF schema = <<>> THEN <<>> ELSE Tail(schema))

CommitRowFused(cols, hp, e, labels) == CommitFused(cols, hp, e, labels, dbLabels)

\* the non-empty branch: clear, then insert
CommitRow(cols, hp, e, labels) ==
    InsertStaged(ClearRow(cols, e, dbLabels), hp, e, labels)

----------------------------------------------------------------------------
(* History *)

NoRow == [l \in LabelSet |-> <<>>]

\* no session has been opened since the last viewer key
NoSession == [by |-> "none", live |-> 0]

\* what `last` records when key `op` is handled in the current state: the
\* key, the state it was handled in, the row of the session's entity then,
\* and, from `e` / `n` until the first viewer key after the session, the key
\* that opened the session with the number of live entities before it
Handled(op) ==
    [op  |-> op,
     pre |-> state,
     row |-> IF state.tag = "ReplayInfoEditor"
             THEN Row(columns, state.entity) ELSE NoRow,
     opened |-> IF state.tag = "ReplayInfoEditor" THEN last.opened
                ELSE IF op \in {"e", "n"} THEN [by |-> op, live |-> Len(live)]
                ELSE NoSession]

DownsCap == 2 * Len(dbLabels) + 2

\* forward navigations counted from the last moment the focus was LabelData(0)
DownsAfter(new, isDown) ==
    IF new.tag # "ReplayInfoEditor" THEN -1
    ELSE IF isDown /\ downs >= 0
         THEN (IF downs < DownsCap THEN downs + 1 ELSE downs)
    ELSE IF ~isDown /\ new.focus = LabelData(0) THEN 0
    ELSE -1

UnchangedStore == UNCHANGED <<live, spawned, columns, heap>>

InViewer == state.tag = "ReplayDBViewer"
InEditor == state.tag = "ReplayInfoEditor"

----------------------------------------------------------------------------
(* Init: the state App::new leaves *)

Repeat(c, n) == [i \in 1..n |-> c]

Init ==
    /\ live = [i \in 1..InitRows |-> i]
    /\ spawned = InitRows
    /\ \E rows \in [1..InitRows -> InitRowSamples] :
          /\ heap = [i \in 1..InitRows |->
                        [buf |-> Repeat("a", rows[i].len), drops |-> 0]]
          /\ columns =
                [l \in LabelSet |->
                    [e \in Entities |->
                        IF e > InitRows THEN <<>>
                        ELSE CASE l.data = "Text"   -> <<e>>
                               [] l.data = "Number" -> <<rows[e].split>>
                               [] l.data = "Unit"   ->
                                    IF rows[e].pb THEN <<"()">> ELSE <<>>]]
    /\ state = ReplayDBViewer(0)
    /\ spent = 0
    /\ last = [op |-> "init", pre |-> ReplayDBViewer(0), row |-> NoRow,
               opened |-> NoSession]
    /\ downs = -1

----------------------------------------------------------------------------
(* Viewer mode.  KeyCode::Right / KeyCode::Left move the column highlight of *)
(* the TableState, which no handler reads; it is not part of the state.    *)

\* KeyCode::Esc
ViewerEsc ==
    /\ InViewer
    /\ state' = Exited
    /\ last' = Handled("Esc")
    /\ downs' = -1
    /\ UNCHANGED spent
    /\ UnchangedStore

next_row(i) == IF i >= RowCount - 1 THEN 0 ELSE i + 1

\* variant: Up on the first row stays there
prev_row_no_wrap(i) == IF i = 0 THEN 0 ELSE i - 1

prev_row(i) == IF i = 0 THEN RowCount - 1 ELSE i - 1

\* KeyCode::Up
ViewerUp ==
    /\ InViewer
    /\ state' = ReplayDBViewer(prev_row(state.selected))
    /\ last' = Handled("Up")
    /\ downs' = -1
    /\ UNCHANGED spent
    /\ UnchangedStore

\* KeyCode::Down
ViewerDown ==
    /\ InViewer
    /\ state' = ReplayDBViewer(next_row(state.selected))
    /\ last' = Handled("Down")
    /\ downs' = -1
    /\ UNCHANGED spent
    /\ UnchangedStore

\* variant: `e` with no entity at the selected position is ignored
EditSelectedHandled(lv, cols, hp, selected_row) ==
    IF selected_row < Len(lv)
    THEN NewEditor(cols, hp, lv[selected_row + 1])
    ELSE ReplayDBViewer(selected_row)

\* KeyCode::Char('e'): the entity at the selected position of the live
\* sequence; find(..).unwrap() panics when there is none
EditSelected(lv, cols, hp, selected_row) ==
    IF selected_row < Len(lv) THEN NewEditor(cols, hp, lv[selected_row + 1])
    ELSE Panicked

ViewerEdit ==
    /\ InViewer
    /\ spent < Budget
    /\ state' = EditSelected(live, columns, heap, state.selected)
    /\ spent' = spent + 1
    /\ last' = Handled("e")
    /\ downs' = DownsAfter(state', FALSE)
    /\ UnchangedStore

\* KeyCode::Char('n')
ViewerNew ==
    /\ InViewer
    /\ spent < Budget
    /\ LET selected_entity == spawned + 1
       IN  /\ spawned' = spawned + 1
           /\ live' = Append(live, selected_entity)
           /\ state' = NewEditor(columns, heap, selected_entity)
    /\ last' = Handled("n")
    /\ downs' = DownsAfter(state', FALSE)
    /\ spent' = spent + 1
    /\ UNCHANGED <<columns, heap>>

----------------------------------------------------------------------------
(* Editor mode *)

WithFocus(focus) == ReplayInfoEditor(state.entity, focus, state.labels)

NumAddable == number_addable_labels(state.labels)

\* variant: Esc leaves the session from the add menu too
EscStateAlwaysLeaves(st) == ReplayDBViewer(0)

\* KeyCode::Esc
EscState(st) ==
    IF st.focus.tag = "AddableLabel"
    THEN ReplayInfoEditor(st.entity, LabelAdd, st.labels)
    ELSE ReplayDBViewer(0)

\* variant: leaving a session whose entity has no cell despawns the entity
EditorEscDespawning ==
    /\ InEditor
    /\ state' = EscState(state)
    /\ live' = IF state.focus.tag # "AddableLabel" /\ Row(columns, state.entity) = NoRow
               THEN DespawnLive(live, state.entity)
               ELSE live
    /\ last' = Handled("Esc")
    /\ downs' = DownsAfter(state', FALSE)
    /\ UNCHANGED <<spawned, columns, heap, spent>>

EditorEsc ==
    /\ InEditor
    /\ state' = EscState(state)
    /\ last' = Handled("Esc")
    /\ downs' = DownsAfter(state', FALSE)
    /\ UNCHANGED spent
    /\ UnchangedStore

\* KeyCode::Up
EditorUp ==
    /\ InEditor
    /\ state' = WithFocus(prev_focus(state.focus, Len(state.labels), NumAddable))
    /\ last' = Handled("Up")
    /\ downs' = DownsAfter(state', FALSE)
    /\ UNCHANGED spent
    /\ UnchangedStore

\* variant: Down advances the focus as the deleting Enter does
EditorDownForDeletion ==
    /\ InEditor
    /\ state' = WithFocus(next_focus(state.focus, Len(state.labels), NumAddable, TRUE))
    /\ last' = Handled("Down")
    /\ downs' = DownsAfter(state', TRUE)
    /\ UNCHANGED spent
    /\ UnchangedStore

\* KeyCode::Down | KeyCode::Tab
EditorDown ==
    /\ InEditor
    /\ state' = WithFocus(next_focus(state.focus, Len(state.labels), NumAddable, FALSE))
    /\ last' = Handled("Down")
    /\ downs' = DownsAfter(state', TRUE)
    /\ UNCHANGED spent
    /\ UnchangedStore

\* variant: Enter on a field erases its text before moving on
EnterLabelDataErasing ==
    /\ InEditor
    /\ state.focus.tag = "LabelData"
    /\ state' = ReplayInfoEditor(
                    state.entity,
                    next_focus(state.focus, Len(state.labels), NumAddable, FALSE),
                    [i \in 1..Len(state.labels) |->
                        IF i = state.focus.n + 1
                        THEN LabelInput(state.labels[i].label, <<>>)
                        ELSE state.labels[i]])
    /\ last' = Handled("Enter")
    /\ downs' = DownsAfter(state', FALSE)
    /\ UNCHANGED spent
    /\ UnchangedStore

\* KeyCode::Enter on LabelData(n)
EnterLabelData ==
    /\ InEditor
    /\ state.focus.tag = "LabelData"
    /\ state' = WithFocus(next_focus(state.focus, Len(state.labels), NumAddable, FALSE))
    /\ last' = Handled("Enter")
    /\ downs' = DownsAfter(state', FALSE)
    /\ UNCHANGED spent
    /\ UnchangedStore

\* Vec::remove(n), n 0-based
RemoveAt(labels, n) ==
    SubSeq(labels, 1, n) \o SubSeq(labels, n + 2, Len(labels))

\* variant: the focus is advanced as if nothing were deleted
RemoveStateNoShift(st) ==
    IF st.focus.n < Len(st.labels)
    THEN ReplayInfoEditor(
             st.entity,
             next_focus(st.focus, Len(st.labels),
                        number_addable_labels(st.labels), FALSE),
             RemoveAt(st.labels, st.focus.n))
    ELSE Panicked

\* KeyCode::Enter on LabelRemove(n); Vec::remove panics when n is out of range
RemoveState(st) ==
    IF st.focus.n < Len(st.labels)
    THEN ReplayInfoEditor(
             st.entity,
             next_focus(st.focus, Len(st.labels),
                        number_addable_labels(st.labels), TRUE),
             RemoveAt(st.labels, st.focus.n))
    ELSE Panicked

\* variant: removing a staged field removes its stored entry at once
EnterLabelRemoveEager ==
    /\ InEditor
    /\ state.focus.tag = "LabelRemove"
    /\ state' = RemoveState(state)
    /\ columns' = IF state.focus.n < Len(state.labels)
                  THEN RemoveComponent(columns, state.labels[state.focus.n + 1].label,
                                       state.entity)
                  ELSE columns
    /\ last' = Handled("Enter")
    /\ downs' = DownsAfter(state', FALSE)
    /\ UNCHANGED <<live, spawned, heap, spent>>

EnterLabelRemove ==
    /\ InEditor
    /\ state.focus.tag = "LabelRemove"
    /\ state' = RemoveState(state)
    /\ last' = Handled("Enter")
    /\ downs' = DownsAfter(state', FALSE)
    /\ UNCHANGED spent
    /\ UnchangedStore

\* variant: the focus after the push is the new length, not the new index
AddStateFocusPastEnd(st) ==
    LET addable == addable_labels(st.labels)
    IN  IF st.focus.n < Len(addable)
        THEN LET labels == Append(st.labels, LabelInput(addable[st.focus.n + 1], <<>>))
             IN  ReplayInfoEditor(st.entity, LabelData(Len(labels)), labels)
        ELSE Panicked

\* variant: the menu index is taken as an index into the whole schema
AddStateFromSchema(st) ==
    IF st.focus.n < Len(dbLabels)
    THEN LET labels == Append(st.labels, LabelInput(dbLabels[st.focus.n + 1], <<>>))
         IN  ReplayInfoEditor(st.entity, LabelData(Len(labels) - 1), labels)
    ELSE Panicked

\* KeyCode::Enter on AddableLabel(n); nth(n).unwrap() panics when there is no
\* n-th addable label
AddState(st) ==
    LET addable == addable_labels(st.labels)
    IN  IF st.focus.n < Len(addable)
        THEN LET labels == Append(st.labels, LabelInput(addable[st.focus.n + 1], <<>>))
             IN  ReplayInfoEditor(st.entity, LabelData(Len(labels) - 1), labels)
        ELSE Panicked

EnterAddableLabel ==
    /\ InEditor
    /\ state.focus.tag = "AddableLabel"
    /\ state' = AddState(state)
    /\ last' = Handled("Enter")
    /\ downs' = DownsAfter(state', FALSE)
    /\ UNCHANGED spent
    /\ UnchangedStore

\* variant: the add menu opens whether or not a label is left to add
OpenAddStateUnguarded(st) == ReplayInfoEditor(st.entity, AddableLabel(0), st.labels)

\* KeyCode::Enter on LabelAdd
OpenAddState(st) ==
    IF number_addable_labels(st.labels) > 0
    THEN ReplayInfoEditor(st.entity, AddableLabel(0), st.labels)
    ELSE st

EnterLabelAdd ==
    /\ InEditor
    /\ state.focus.tag = "LabelAdd"
    /\ state' = OpenAddState(state)
    /\ last' = Handled("Enter")
    /\ downs' = DownsAfter(state', FALSE)
    /\ UNCHANGED spent
    /\ UnchangedStore

\* variant: an empty staged list clears the row and keeps the entity
SaveStoreNoDespawn(lv, cols, hp, e, labels) ==
    LET r == CommitRow(cols, hp, e, labels)
    IN  [ok |-> r.ok, live |-> lv, columns |-> r.columns, heap |-> r.heap]

\* KeyCode::Enter on SaveChanges: the store after the handler, and whether
\* the handler ran to its end (ok) or panicked on the way
SaveStore(lv, cols, hp, e, labels) ==
    IF labels = <<>>
    THEN [ok |-> TRUE, live |-> DespawnLive(lv, e),
          columns |-> DespawnColumns(cols, e), heap |-> hp]
    ELSE LET r == CommitRow(cols, hp, e, labels)
         IN  [ok |-> r.ok, live |-> lv, columns |-> r.columns, heap |-> r.heap]

EnterSaveChanges ==
    /\ InEditor
    /\ state.focus.tag = "SaveChanges"
    /\ LET r == SaveStore(live, columns, heap, state.entity, state.labels)
       IN  /\ live' = r.live
           /\ columns' = r.columns
           /\ heap' = r.heap
           /\ state' = IF r.ok THEN ReplayDBViewer(0) ELSE Panicked
    /\ last' = Handled("Enter")
    /\ downs' = -1
    /\ UNCHANGED <<spawned, spent>>

\* Input::handle_event with the cursor at the end of the buffer, where
\* Input::new puts it: a character is appended, Backspace deletes the last one
HandleEvent(data, key) ==
    IF key = "Backspace"
    THEN (IF data = <<>> THEN data ELSE SubSeq(data, 1, Len(data) - 1))
    ELSE Append(data, key)

\* variant: the key goes to the first staged field, whichever is focused
KeyStateFirstField(st, key) ==
    IF st.focus.tag = "LabelData"
    THEN IF st.focus.n < Len(st.labels)
         THEN ReplayInfoEditor(
                  st.entity, st.focus,
                  [st.labels EXCEPT ![1].data = HandleEvent(@, key)])
         ELSE Panicked
    ELSE st

\* the default key arm; labels[*n] panics when n is out of range
KeyState(st, key) ==
    IF st.focus.tag = "LabelData"
    THEN IF st.focus.n < Len(st.labels)
         THEN ReplayInfoEditor(
                  st.entity, st.focus,
                  [st.labels EXCEPT ![st.focus.n + 1].data = HandleEvent(@, key)])
         ELSE Panicked
    ELSE st

EditorKey ==
    /\ InEditor
    /\ spent < Budget
    /\ \E key \in EditChars \cup {"Backspace"} :
          /\ state' = KeyState(state, key)
          /\ last' = Handled(key)
    /\ spent' = IF state.focus.tag = "LabelData" THEN spent + 1 ELSE spent
    /\ downs' = DownsAfter(state', FALSE)
    /\ UnchangedStore

----------------------------------------------------------------------------

Next ==
    \/ ViewerEsc
    \/ ViewerUp
    \/ ViewerDown
    \/ ViewerEdit
    \/ ViewerNew
    \/ EditorEsc
    \/ EditorUp
    \/ EditorDown
    \/ EnterLabelData
    \/ EnterLabelRemove
    \/ EnterAddableLabel
    \/ EnterLabelAdd
    \/ EnterSaveChanges
    \/ EditorKey

Spec == Init /\ [][Next]_vars

----------------------------------------------------------------------------
(* Vocabulary of the properties *)

\* the last key was handled in editor mode
PreEditor == last.pre.tag = "ReplayInfoEditor"

\* the last key handled was Enter with the focus on SaveChanges: a commit
CommitDone ==
    /\ last.op = "Enter"
    /\ PreEditor
    /\ last.pre.focus.tag = "SaveChanges"

StagedLabels(labels) == {labels[i].label : i \in 1..Len(labels)}

NumberFieldsParse(labels) ==
    \A i \in 1..Len(labels) :
        labels[i].label.data = "Number" => ParseI16(labels[i].data).ok

Present(l, e) == GetComponent(columns, l, e) # <<>>

\* the stored cell of label l for entity e holds the value staged as `data`
HoldsStaged(l, e, data) ==
    /\ Present(l, e)
    /\ CASE l.data = "Number" ->
                ParseI16(data).ok /\ GetComponent(columns, l, e)[1] = ParseI16(data).v
         [] l.data = "Text"   -> heap[GetComponent(columns, l, e)[1]].buf = data
         [] l.data = "Unit"   -> TRUE

\* the entity's row is exactly the staged list
RowIsStaged(e, labels) ==
    /\ \A l \in LabelSet : Present(l, e) <=> l \in StagedLabels(labels)
    /\ \A i \in 1..Len(labels) : HoldsStaged(labels[i].label, e, labels[i].data)

IsLive(e) == \E i \in 1..Len(live) : live[i] = e

----------------------------------------------------------------------------
(* C1 .. C10 *)

\* C1 (replace-all): after Enter at SaveChanges with a non-empty staged list
\* whose Number fields all parse, column L has an entry for the session's
\* entity if and only if L is in the staged list, whatever the row was before.
C1_ReplaceAll ==
    (CommitDone /\ last.pre.labels # <<>> /\ NumberFieldsParse(last.pre.labels))
        => \A l \in LabelSet :
               Present(l, last.pre.entity) <=> l \in StagedLabels(last.pre.labels)

\* a commit has replaced a row {A, C} by a staged {A, B}
C1_Witness ==
    /\ CommitDone
    /\ state.tag = "ReplayDBViewer"
    /\ \E a, b, c \in LabelSet :
          /\ a # b /\ b # c /\ a # c
          /\ last.row[a] # <<>> /\ last.row[c] # <<>> /\ last.row[b] = <<>>
          /\ StagedLabels(last.pre.labels) = {a, b}
          /\ Present(a, last.pre.entity) /\ Present(b, last.pre.entity)
          /\ ~Present(c, last.pre.entity)

\* C2 (all-or-nothing): after a commit, also one that stopped because a
\* staged field was rejected, the entity's row is either its complete
\* pre-commit row or exactly the staged set.
C2_AllOrNothing ==
    CommitDone =>
        \/ Row(columns, last.pre.entity) = last.row
        \/ RowIsStaged(last.pre.entity, last.pre.labels)

\* C3 (session independent of the store): every editor-mode key other than
\* Enter at SaveChanges leaves the live entities, every column and the text
\* the columns own unchanged.
C3_SessionIndependent ==
    [][(InEditor /\ ~(last'.op = "Enter" /\ state.focus.tag = "SaveChanges"))
          => UNCHANGED <<live, columns, heap>>]_vars

\* a staged field has been removed in the session and the store still has it
C3_Witness ==
    /\ InEditor
    /\ last.op = "Enter"
    /\ PreEditor
    /\ last.pre.focus.tag = "LabelRemove"
    /\ \E l \in LabelSet :
          /\ l \notin StagedLabels(state.labels)
          /\ l \in StagedLabels(last.pre.labels)
          /\ Present(l, state.entity)

\* C4 (empty commit despawns): after Enter at SaveChanges with an empty staged
\* list no column has an entry for the session's entity and the entity is not
\* in the live sequence the viewer's rows are built from.
C4_EmptyCommitDespawns ==
    (CommitDone /\ last.pre.labels = <<>>)
        => /\ \A l \in LabelSet : ~Present(l, last.pre.entity)
           /\ ~IsLive(last.pre.entity)

\* a row of three fields has been emptied in the session and committed
C4_Witness ==
    /\ CommitDone
    /\ last.pre.labels = <<>>
    /\ \A l \in LabelSet : last.row[l] # <<>>
    /\ state.tag = "ReplayDBViewer"
    /\ ~IsLive(last.pre.entity)

\* text is the decimal rendering of an integer: a "-" only before a non-zero
\* value, then digits with no leading zero
IsDecimal(text) ==
    LET neg  == text # <<>> /\ text[1] = "-"
        body == IF neg THEN Tail(text) ELSE text
    IN  /\ body # <<>>
        /\ \A i \in 1..Len(body) : IsDigit(body[i])
        /\ Len(body) > 1 => body[1] # "0"
        /\ neg => body[1] # "0"

\* the field a new session on entity e shows for label l, as a sequence of
\* at most one text
Reloaded(e, l) ==
    LET labels == NewEditor(columns, heap, e).labels
    IN  [i \in 1..Len(SelectSeq(labels, LAMBDA f : f.label = l)) |->
            SelectSeq(labels, LAMBDA f : f.label = l)[i].data]

\* C5 (round trip): after a commit whose Number fields parse, a new session on
\* the same entity shows, for every staged field, one field of that label: the
\* exact text for Text, the parsed integer in decimal for Number, presence for
\* Unit; and no field for a label that was not staged.
C5_RoundTrip ==
    (CommitDone /\ last.pre.labels # <<>> /\ NumberFieldsParse(last.pre.labels))
        => /\ \A i \in 1..Len(last.pre.labels) :
                LET f == last.pre.labels[i]
                    r == Reloaded(last.pre.entity, f.label)
                IN  /\ Len(r) = 1
                    /\ f.label.data = "Text" => r[1] = f.data
                    /\ f.label.data = "Number" =>
                           /\ ParseI16(r[1]).ok
                           /\ ParseI16(r[1]).v = ParseI16(f.data).v
                           /\ IsDecimal(r[1])
           /\ \A l \in LabelSet \ StagedLabels(last.pre.labels) :
                Reloaded(last.pre.entity, l) = <<>>

\* a commit of an edited name, a negative number and a marker
C5_Witness ==
    /\ CommitDone
    /\ state.tag = "ReplayDBViewer"
    /\ Len(last.pre.labels) = 3
    /\ \E i \in 1..3 :
          /\ last.pre.labels[i].label.data = "Number"
          /\ ParseI16(last.pre.labels[i].data).ok
          /\ ParseI16(last.pre.labels[i].data).v < 0
    /\ \E i \in 1..3 :
          /\ last.pre.labels[i].label.data = "Text"
          /\ Len(last.pre.labels[i].data) = 2

\* the String buffer p is referenced by an entry of the Text column
Referenced(p) ==
    \E e \in Entities :
        GetComponent(columns, dbLabels[1], e) = <<p>>

\* C6 (exactly-once release): every String buffer handed to a column is
\* released exactly once, when its entry is overwritten, removed or its entity
\* despawned: a buffer no column references has been released once, and a
\* referenced one not at all.
C6_ReleasedExactlyOnce ==
    \A p \in 1..Len(heap) :
        IF Referenced(p) THEN heap[p].drops = 0 ELSE heap[p].drops = 1

\* C7 (a rejected Number aborts): after Enter at SaveChanges with a staged
\* Number field that does not parse as an i16, the process has panicked, and
\* a panicked process handles no further key.
C7_BadNumberAborts ==
    /\ (CommitDone /\ ~NumberFieldsParse(last.pre.labels)) => state = Panicked
    /\ state.tag = "Panicked" => ~ENABLED Next

\* a commit has panicked on a Number field that is all digits and out of range
C7_Witness ==
    /\ CommitDone
    /\ state = Panicked
    /\ \E i \in 1..Len(last.pre.labels) :
          LET f == last.pre.labels[i]
          IN  /\ f.label.data = "Number"
              /\ Len(f.data) = 6
              /\ f.data[1] = "-"
              /\ \A j \in 2..6 : IsDigit(f.data[j])

\* C8 (cancel): Esc with the focus on AddableLabel(j) moves the focus to
\* LabelAdd and keeps the session and its staged list; Esc with any other
\* focus ends the session and leaves the application in the viewer.
C8_Cancel ==
    (last.op = "Esc" /\ PreEditor)
        => IF last.pre.focus.tag = "AddableLabel"
           THEN /\ InEditor
                /\ state.focus = LabelAdd
                /\ state.labels = last.pre.labels
                /\ state.entity = last.pre.entity
           ELSE state.tag = "ReplayDBViewer"

\* Esc in the add menu of a session that has staged fields
C8_Witness ==
    /\ last.op = "Esc"
    /\ PreEditor
    /\ last.pre.focus = AddableLabel(1)
    /\ InEditor
    /\ state.labels # <<>>

\* C9 (focus cycle): Down at SaveChanges stays at SaveChanges; and counting
\* Down keys from LabelData(0) with k staged fields, the focus is SaveChanges
\* exactly from the (2k+1)-th on.
C9_FocusCycle ==
    /\ (last.op = "Down" /\ PreEditor /\ last.pre.focus = SaveChanges)
           => (InEditor /\ state.focus = SaveChanges)
    /\ (InEditor /\ downs >= 0)
           => /\ Len(state.labels) >= 1
              /\ state.focus = SaveChanges <=> downs >= 2 * Len(state.labels) + 1

\* SaveChanges reached by Down keys alone from LabelData(0) with three fields
C9_Witness ==
    /\ InEditor
    /\ Len(state.labels) = 3
    /\ downs = 7
    /\ state.focus = SaveChanges
    /\ last.pre.focus = LabelAdd

\* C10 (deletion index shift): Enter at LabelRemove(i) removes exactly the
\* i-th staged field, the others keeping their order, and moves the focus to
\* LabelData(i) when i was not the last index and to LabelAdd when it was.
C10_DeletionShift ==
    (last.op = "Enter" /\ PreEditor /\ last.pre.focus.tag = "LabelRemove")
        => LET i   == last.pre.focus.n
               old == last.pre.labels
           IN  /\ InEditor
               /\ Len(state.labels) = Len(old) - 1
               /\ \A j \in 1..Len(state.labels) :
                      state.labels[j] = IF j <= i THEN old[j] ELSE old[j + 1]
               /\ state.focus = IF i = Len(old) - 1 THEN LabelAdd ELSE LabelData(i)

\* [A, B, C] at LabelRemove(1) has become [A, C] at LabelData(1)
C10_Witness ==
    /\ last.op = "Enter"
    /\ PreEditor
    /\ last.pre.focus = LabelRemove(1)
    /\ Len(last.pre.labels) = 3
    /\ InEditor
    /\ state.focus = LabelData(1)
    /\ state.labels = <<last.pre.labels[1], last.pre.labels[3]>>

----------------------------------------------------------------------------
(* C11 .. C20: the focus machine and the staged list *)

\* C11 (forward navigation): Down leaves the staged list alone and takes
\* LabelData(i) to LabelRemove(i), LabelRemove(i) to LabelData(i+1) unless i is
\* the last staged index, then to LabelAdd, and LabelAdd to SaveChanges.
C11_ForwardNavigation ==
    (last.op = "Down" /\ PreEditor)
        => LET f == last.pre.focus
               k == Len(last.pre.labels)
           IN  /\ InEditor
               /\ state.entity = last.pre.entity
               /\ state.labels = last.pre.labels
               /\ f.tag = "LabelData" => state.focus = LabelRemove(f.n)
               /\ (f.tag = "LabelRemove" /\ f.n + 1 < k) => state.focus = LabelData(f.n + 1)
               /\ (f.tag = "LabelRemove" /\ f.n + 1 = k) => state.focus = LabelAdd
               /\ f.tag = "LabelAdd" => state.focus = SaveChanges

\* Down at LabelRemove(0) with at least two staged fields: the focus
\* is LabelData(1) and the staged list is as it was
C11_Witness ==
    /\ last.op = "Down"
    /\ PreEditor
    /\ last.pre.focus = LabelRemove(0)
    /\ Len(last.pre.labels) >= 2
    /\ InEditor
    /\ state.focus = LabelData(1)
    /\ state.labels = last.pre.labels

\* C12 (backward navigation): at every focus of a session other than
\* SaveChanges, Up undoes Down: prev_focus(next_focus(s)) = s. Up leaves the
\* staged list alone and takes LabelRemove(i) to LabelData(i), LabelData(i)
\* with i > 0 to LabelRemove(i-1), LabelAdd to LabelRemove(last index) when a
\* field is staged and to itself when none is, and SaveChanges to LabelAdd.
C12_BackwardNavigation ==
    /\ (InEditor /\ state.focus # SaveChanges)
           => LET k == Len(state.labels)
                  a == NumAddable
              IN  prev_focus(next_focus(state.focus, k, a, FALSE), k, a) = state.focus
    /\ (last.op = "Up" /\ PreEditor)
           => LET f == last.pre.focus
                  k == Len(last.pre.labels)
              IN  /\ InEditor
                  /\ state.entity = last.pre.entity
                  /\ state.labels = last.pre.labels
                  /\ f.tag = "LabelRemove" => state.focus = LabelData(f.n)
                  /\ (f.tag = "LabelData" /\ f.n > 0) => state.focus = LabelRemove(f.n - 1)
                  /\ (f.tag = "LabelAdd" /\ k >= 1) => state.focus = LabelRemove(k - 1)
                  /\ (f.tag = "LabelAdd" /\ k = 0) => state.focus = LabelAdd
                  /\ f.tag = "SaveChanges" => state.focus = LabelAdd

\* Up at LabelData(2) of three staged fields: the focus is LabelRemove(1),
\* from where Down leads back to LabelData(2)
C12_Witness ==
    /\ last.op = "Up"
    /\ PreEditor
    /\ last.pre.focus = LabelData(2)
    /\ Len(last.pre.labels) = 3
    /\ InEditor
    /\ state.focus = LabelRemove(1)
    /\ next_focus(state.focus, 3, NumAddable, FALSE) = last.pre.focus

\* the number of schema labels that are not staged
Unstaged(labels) == Len(dbLabels) - Cardinality(StagedLabels(labels))

\* C13 (add menu is cyclic): at AddableLabel(j) with count addable labels,
\* Down leads to AddableLabel((j+1) mod count) and Up to
\* AddableLabel((j-1+count) mod count); neither leaves the add menu nor
\* changes the staged list.
C13_AddMenuCyclic ==
    (last.op \in {"Up", "Down"} /\ PreEditor /\ last.pre.focus.tag = "AddableLabel")
        => LET j     == last.pre.focus.n
               count == Unstaged(last.pre.labels)
           IN  /\ InEditor
               /\ state.labels = last.pre.labels
               /\ count > 0
               /\ state.focus = IF last.op = "Down"
                                THEN AddableLabel((j + 1) % count)
                                ELSE AddableLabel((j - 1 + count) % count)

\* Down at the last of two addable labels has wrapped to the first
C13_Witness ==
    /\ last.op = "Down"
    /\ PreEditor
    /\ last.pre.focus = AddableLabel(1)
    /\ Unstaged(last.pre.labels) = 2
    /\ InEditor
    /\ state.focus = AddableLabel(0)

\* the position of a label in the schema, 1-based
SchemaIndexOf == [l \in LabelSet |-> CHOOSE i \in 1..Len(dbLabels) : dbLabels[i] = l]

SchemaIndex(l) == SchemaIndexOf[l]

\* how many schema labels before l are not staged in labels
UnstagedBefore(labels, l) ==
    Cardinality({i \in 1..(SchemaIndex(l) - 1) : dbLabels[i] \notin StagedLabels(labels)})

\* C14 (add confirm): Enter at AddableLabel(j) appends exactly one staged
\* field, whose label is the j-th (0-based) schema label not staged before and
\* whose text is empty, leaves the fields staged before as they were, and sets
\* the focus to LabelData(n-1), n being the new length.
C14_AddConfirm ==
    (last.op = "Enter" /\ PreEditor /\ last.pre.focus.tag = "AddableLabel")
        => LET j   == last.pre.focus.n
               old == last.pre.labels
           IN  /\ InEditor
               /\ state.entity = last.pre.entity
               /\ Len(state.labels) = Len(old) + 1
               /\ SubSeq(state.labels, 1, Len(old)) = old
               /\ LET new == state.labels[Len(state.labels)]
                  IN  /\ new.data = <<>>
                      /\ new.label \notin StagedLabels(old)
                      /\ UnstagedBefore(old, new.label) = j
               /\ state.focus = LabelData(Len(state.labels) - 1)

\* with one field staged, the second of the two addable labels was picked
C14_Witness ==
    /\ last.op = "Enter"
    /\ PreEditor
    /\ last.pre.focus = AddableLabel(1)
    /\ Len(last.pre.labels) = 1
    /\ InEditor
    /\ Len(state.labels) = 2
    /\ state.labels[1] = last.pre.labels[1]
    /\ state.focus = LabelData(1)

\* the last key opened a session from the viewer
SessionOpened == last.op \in {"e", "n"} /\ last.pre.tag = "ReplayDBViewer" /\ InEditor

\* C15 (initial focus): a session starts with one staged field per cell of
\* the entity's row, at LabelData(0) when that list is non-empty and at
\* LabelAdd when it is empty; `n` always opens a session on a fresh entity
\* with an empty staged list at LabelAdd.
C15_InitialFocus ==
    /\ SessionOpened
           => /\ StagedLabels(state.labels) = {l \in LabelSet : Present(l, state.entity)}
              /\ state.focus = IF state.labels # <<>> THEN LabelData(0) ELSE LabelAdd
    /\ (last.op = "n" /\ last.pre.tag = "ReplayDBViewer")
           => /\ InEditor
              /\ state.entity = spawned
              /\ state.labels = <<>>
              /\ state.focus = LabelAdd

\* `n` pressed in a viewer that already listed an entity
C15_Witness ==
    /\ last.op = "n"
    /\ SessionOpened
    /\ Len(live) >= 2
    /\ IsLive(state.entity)
    /\ state.labels = <<>>
    /\ state.focus = LabelAdd

\* C16 (opening the add menu): Enter at LabelAdd moves the focus to
\* AddableLabel(0) when some schema label is not staged, and changes nothing
\* when every schema label is staged.
C16_OpenAddMenu ==
    (last.op = "Enter" /\ PreEditor /\ last.pre.focus = LabelAdd)
        => IF \E l \in LabelSet : l \notin StagedLabels(last.pre.labels)
           THEN state = ReplayInfoEditor(last.pre.entity, AddableLabel(0), last.pre.labels)
           ELSE state = last.pre

\* Enter at LabelAdd with every schema label staged did nothing
C16_Witness ==
    /\ last.op = "Enter"
    /\ PreEditor
    /\ last.pre.focus = LabelAdd
    /\ StagedLabels(last.pre.labels) = LabelSet
    /\ state = last.pre

\* C17 (Enter on a field): Enter at LabelData(i) moves the focus as Down
\* does, to LabelRemove(i), and leaves the staged list, every text included,
\* as it was.
C17_EnterOnField ==
    (last.op = "Enter" /\ PreEditor /\ last.pre.focus.tag = "LabelData")
        => /\ InEditor
           /\ state.entity = last.pre.entity
           /\ state.focus = LabelRemove(last.pre.focus.n)
           /\ state.focus = next_focus(last.pre.focus, Len(last.pre.labels),
                                       number_addable_labels(last.pre.labels), FALSE)
           /\ state.labels = last.pre.labels

\* Enter at LabelData(1) on a field whose text is not empty
C17_Witness ==
    /\ last.op = "Enter"
    /\ PreEditor
    /\ last.pre.focus = LabelData(1)
    /\ last.pre.labels[2].data # <<>>
    /\ InEditor
    /\ state.focus = LabelRemove(1)
    /\ state.labels = last.pre.labels

\* the keys that fall to the default arm
TextKeys == EditChars \cup {"Backspace"}

\* C18 (text input is confined): a text key changes nothing of the session
\* unless the focus is LabelData(i), and then it changes at most the text of
\* staged field i: not the focus, no label, no other field's text.
C18_TextInputConfined ==
    (last.op \in TextKeys /\ PreEditor)
        => IF last.pre.focus.tag = "LabelData"
           THEN LET i   == last.pre.focus.n
                    old == last.pre.labels
                IN  /\ InEditor
                    /\ state.entity = last.pre.entity
                    /\ state.focus = last.pre.focus
                    /\ Len(state.labels) = Len(old)
                    /\ \A k \in 1..Len(old) :
                           /\ state.labels[k].label = old[k].label
                           /\ k # i + 1 => state.labels[k].data = old[k].data
           ELSE state = last.pre

\* a key at LabelData(1) of three fields has changed the second field's text
C18_Witness ==
    /\ last.op \in TextKeys
    /\ PreEditor
    /\ last.pre.focus = LabelData(1)
    /\ Len(last.pre.labels) = 3
    /\ InEditor
    /\ state.labels[2].data # last.pre.labels[2].data
    /\ state.labels[1] = last.pre.labels[1]
    /\ state.labels[3] = last.pre.labels[3]

\* C19 (addable labels): the addable sequence of a staged list holds exactly
\* the schema labels that are not staged, each once, in schema order; its
\* length is the count the add menu wraps at.
C19_AddableLabels ==
    /\ InEditor
           => LET addable == addable_labels(state.labels)
              IN  /\ \A i \in 1..Len(addable) :
                         /\ addable[i] \in LabelSet
                         /\ addable[i] \notin StagedLabels(state.labels)
                  /\ \A l \in LabelSet \ StagedLabels(state.labels) :
                         \E i \in 1..Len(addable) : addable[i] = l
                  /\ \A i, j \in 1..Len(addable) :
                         i < j => SchemaIndex(addable[i]) < SchemaIndex(addable[j])
                  /\ number_addable_labels(state.labels) = Len(addable)
    /\ (last.op = "Down" /\ PreEditor /\ last.pre.focus.tag = "AddableLabel")
           => /\ InEditor
              /\ state.focus.tag = "AddableLabel"
              /\ state.focus.n = 0
                    <=> last.pre.focus.n + 1 = Len(addable_labels(last.pre.labels))

\* the add menu of a session that stages only the middle schema label offers
\* the first and the last one
C19_Witness ==
    /\ InEditor
    /\ state.focus.tag = "AddableLabel"
    /\ Len(state.labels) = 1
    /\ state.labels[1].label = dbLabels[2]
    /\ addable_labels(state.labels) = <<dbLabels[1], dbLabels[3]>>

\* C20 (labels are staged once): in every state of a session no two staged
\* fields have the same label, so the staged list is never longer than the
\* schema.
C20_NoDuplicateLabels ==
    InEditor
        => /\ \A i, j \in 1..Len(state.labels) :
                  i # j => state.labels[i].label # state.labels[j].label
           /\ Len(state.labels) <= Len(dbLabels)

\* the first schema label was removed and added again: it is staged last,
\* and once
C20_Witness ==
    /\ last.op = "Enter"
    /\ PreEditor
    /\ last.pre.focus.tag = "AddableLabel"
    /\ InEditor
    /\ Len(state.labels) = Len(dbLabels)
    /\ state.labels[Len(dbLabels)].label = dbLabels[1]
    /\ Cardinality(StagedLabels(state.labels)) = Len(dbLabels)

----------------------------------------------------------------------------
(* C21 .. C25: the viewer, the commit order, index bounds *)

\* the last key was handled in viewer mode
PreViewer == last.pre.tag = "ReplayDBViewer"

\* C21 (`e` on the selected position): `e` opens a session for the entity at
\* the selected position of the live sequence; when no entity is live, the
\* program fails: it neither stays in the viewer nor opens a session.
C21_EditSelected ==
    (last.op = "e" /\ PreViewer)
        => /\ last.pre.selected < Len(live)
                  => /\ InEditor
                     /\ state.entity = live[last.pre.selected + 1]
           /\ live = <<>> => (state = Panicked /\ ~ENABLED Next)

\* the only entity was despawned by an empty commit, then `e` was pressed
C21_Witness ==
    /\ last.op = "e"
    /\ PreViewer
    /\ last.pre.selected = 0
    /\ live = <<>>
    /\ spawned >= 1
    /\ state = Panicked

\* the orders of n positions, for every length a staged list can have
PermsOf ==
    [n \in 0..Len(dbLabels) |->
        {p \in [1..n -> 1..n] : \A i, j \in 1..n : p[i] = p[j] => i = j}]

Perms(n) == PermsOf[n]

Permuted(labels, p) == [i \in 1..Len(labels) |-> labels[p[i]]]

\* a cell as a value: a Text cell is the text it owns, not where that text is
CellValue(hp, l, cell) ==
    IF cell # <<>> /\ l.data = "Text" THEN <<hp[cell[1]].buf>> ELSE cell

\* the column contents of a store, by value
StoreView(cols, hp) ==
    [l \in LabelSet |-> [e \in Entities |-> CellValue(hp, l, cols[l][e])]]

C23_FocusInBounds ==
    /\ InEditor
           => /\ state.focus.n \in Nat
              /\ state.focus.tag \in {"LabelData", "LabelRemove"}
                     => state.focus.n < Len(state.labels)
              /\ state.focus.tag = "AddableLabel"
                     => /\ state.focus.n < number_addable_labels(state.labels)
                        /\ state.focus.n < Unstaged(state.labels)
                        /\ number_addable_labels(state.labels) - 1 >= 0
    /\ state = Panicked => ((last.op = "e" /\ PreViewer) \/ CommitDone)

\* Up at AddableLabel(0) of two addable labels: count - 1 is the last index
C23_Witness ==
    /\ last.op = "Up"
    /\ PreEditor
    /\ last.pre.focus = AddableLabel(0)
    /\ InEditor
    /\ Unstaged(state.labels) = 2
    /\ state.focus = AddableLabel(1)

\* the session the last key belongs to was opened by `n`
OpenedByNew == last.opened.by = "n"

\* C24 (`n` then cancel): `n` makes the new entity live before its session
\* opens, and Esc from any focus other than AddableLabel leaves that session
\* with the live entities one more than before `n`, the new entity among
\* them and without an entry in any column.
C24_NewThenCancel ==
    /\ (last.op = "n" /\ PreViewer)
           => /\ InEditor
              /\ Len(live) = last.opened.live + 1
              /\ IsLive(state.entity)
    /\ (last.op = "Esc" /\ PreEditor /\ OpenedByNew
            /\ last.pre.focus.tag # "AddableLabel")
           => /\ InViewer
              /\ Len(live) = last.opened.live + 1
              /\ IsLive(last.pre.entity)
              /\ \A l \in LabelSet : ~Present(l, last.pre.entity)

\* a session opened by `n` was cancelled with a field staged
C24_Witness ==
    /\ last.op = "Esc"
    /\ PreEditor
    /\ OpenedByNew
    /\ last.pre.labels # <<>>
    /\ InViewer
    /\ Len(live) = last.opened.live + 1
    /\ IsLive(last.pre.entity)

====
